---- MODULE Spec2Model ----
(***************************************************************************)
(* Decoration layer of the i73 world generator: BlockMatcher               *)
(* (src/matcher.rs), CactusDecorator (src/decorator/clump/cactus.rs),      *)
(* PlantDecorator (src/decorator/clump/plant.rs) and the Surface / Stack   *)
(* stratification (src/surface.rs).                                        *)
(***************************************************************************)
EXTENDS Integers, Sequences, FiniteSets

VARIABLES
    quad,       \* the QuadMut the decorator works on: position -> block
    quad0,      \* the quad as it was when generate was called
    origin,     \* the `position` argument of generate
    blocks,     \* CactusDecorator.blocks (CactusBlocks)
    plant,      \* the PlantDecorator (block, base, replace)
    settings,   \* CactusDecorator.settings (CactusSettings)
    pc,         \* where the running call stands
    position,   \* the local `position` of CactusDecorator::generate
    height,     \* the local `height` (after line 20)
    left,       \* iterations of `for _ in 0..height` still to run
    draws,      \* values drawn from the random stream by this call, in order
    result,     \* what generate returned
    written,    \* positions set_immediate was called on by this call
    checks,     \* the result of CactusBlocks::check at each level, in order
    oob,        \* the call returned at line 27 (offset(dir::Up) was None)
    matcher,    \* a BlockMatcher under test
    ctor,       \* the constructor that built `matcher`, with its argument
    probe,      \* the block handed to matches
    matched,    \* what matches returned
    stack,      \* a Stack (depth, beach)
    sy,         \* the `y` argument of Stack::surface
    last,       \* the `last` argument of Stack::surface
    surface     \* the outcome of Stack::surface

vars == <<quad, quad0, origin, blocks, plant, settings, pc, position, height,
          left, draws, result, written, checks, oob, matcher, ctor, probe,
          matched, stack, sy, last, surface>>

decoVars == <<quad, quad0, origin, blocks, plant, settings, pc, position,
              height, left, draws, result, written, checks, oob>>
matcherVars == <<matcher, ctor, probe, matched>>
surfaceVars == <<stack, sy, last, surface>>

----------------------------------------------------------------------------
(* Bounds of the model *)

SizeX == 2
SizeY == 4
SizeZ == 2
MaxPatch == 1
MaxLen == 2
MaxBase == 2
MaxAdd == 4
DepthSpan == 2
YSpan == 5

----------------------------------------------------------------------------
(* Block identities (the generic parameter B) *)

Block == {"Air", "Sand", "Stone", "Cactus"}

----------------------------------------------------------------------------
(* BlockMatcher, src/matcher.rs *)

RangeOf(s) == {s[i] : i \in 1..Len(s)}

All == [blocks |-> {}, blacklist |-> TRUE]

None == [blocks |-> {}, blacklist |-> FALSE]

Is(block) == [blocks |-> {block}, blacklist |-> FALSE]

IsNot(block) == [blocks |-> {block}, blacklist |-> TRUE]

Include(bs) == [blocks |-> RangeOf(bs), blacklist |-> FALSE]

Exclude(bs) == [blocks |-> RangeOf(bs), blacklist |-> TRUE]

Xor(a, b) == a # b

MatchesOr(m, block) == block \in m.blocks \/ m.blacklist

Matches(m, block) == Xor(block \in m.blocks, m.blacklist)

----------------------------------------------------------------------------
(* Positions of a quad and their offsets (vocs::position::QuadPosition) *)

Pos == (0..(SizeX - 1)) \X (0..(SizeY - 1)) \X (0..(SizeZ - 1))

NoPos == <<-1, -1, -1>>

Up == <<0, 1, 0>>
Down == <<0, -1, 0>>
MinusX == <<-1, 0, 0>>
PlusX == <<1, 0, 0>>
MinusZ == <<0, 0, -1>>
PlusZ == <<0, 0, 1>>

Offset(p, d) ==
    LET q == <<p[1] + d[1], p[2] + d[2], p[3] + d[3]>>
    IN  IF q \in Pos THEN q ELSE NoPos

Get(q, p) == q[p]

SetImmediate(q, p, b) == [q EXCEPT ![p] = b]

----------------------------------------------------------------------------
(* CactusBlocks::check, src/decorator/clump/cactus.rs *)

Horizontal == {MinusX, PlusX, MinusZ, PlusZ}

NeighbourSolid(bl, q, p, d) ==
    LET n == Offset(p, d)
    IN  n # NoPos /\ Matches(bl.solid, Get(q, n))

BaseBelow(bl, q, p) ==
    LET below == Offset(p, Down)
    IN  IF below = NoPos THEN FALSE ELSE Matches(bl.base, Get(q, below))

CheckNoPlusZ(bl, q, p) ==
    IF ~Matches(bl.replace, Get(q, p)) THEN FALSE
    ELSE IF NeighbourSolid(bl, q, p, MinusX) THEN FALSE
    ELSE IF NeighbourSolid(bl, q, p, PlusX) THEN FALSE
    ELSE IF NeighbourSolid(bl, q, p, MinusZ) THEN FALSE
    ELSE BaseBelow(bl, q, p)

CheckNoBase(bl, q, p) ==
    IF ~Matches(bl.replace, Get(q, p)) THEN FALSE
    ELSE IF NeighbourSolid(bl, q, p, MinusX) THEN FALSE
    ELSE IF NeighbourSolid(bl, q, p, PlusX) THEN FALSE
    ELSE IF NeighbourSolid(bl, q, p, MinusZ) THEN FALSE
    ELSE IF NeighbourSolid(bl, q, p, PlusZ) THEN FALSE
    ELSE Offset(p, Down) # NoPos

Check(bl, q, p) ==
    IF ~Matches(bl.replace, Get(q, p)) THEN FALSE
    ELSE IF NeighbourSolid(bl, q, p, MinusX) THEN FALSE
    ELSE IF NeighbourSolid(bl, q, p, PlusX) THEN FALSE
    ELSE IF NeighbourSolid(bl, q, p, MinusZ) THEN FALSE
    ELSE IF NeighbourSolid(bl, q, p, PlusZ) THEN FALSE
    ELSE BaseBelow(bl, q, p)

----------------------------------------------------------------------------
(* CactusSettings and the height sampling of CactusDecorator::generate *)

DefaultSettings == [base_height |-> 1, add_height |-> 2]

FirstBound(st) == st.add_height + 1

SecondBoundIndependent(st, r1) == st.add_height + 1

SecondBound(st, r1) == r1 + 1

SampleHeight(st, r2) == st.base_height + r2

----------------------------------------------------------------------------
(* Decorator configurations and the quads a call may be handed *)

CactusConfigs ==
    { [replace |-> Is("Air"), base |-> Include(<<"Sand", "Cactus">>),
       solid |-> Exclude(<<"Air">>), block |-> "Cactus"],
      [replace |-> Is("Air"), base |-> All,
       solid |-> Is("Stone"), block |-> "Cactus"],
      [replace |-> Include(<<"Air", "Sand">>),
       base |-> Include(<<"Sand", "Cactus">>),
       solid |-> Is("Stone"), block |-> "Cactus"] }

PlantConfigs ==
    { [block |-> "Cactus", base |-> Is("Sand"), replace |-> Is("Air")],
      [block |-> "Cactus", base |-> IsNot("Air"), replace |-> All],
      [block |-> "Sand", base |-> All, replace |-> IsNot("Stone")] }

PatchBlock == {"Sand", "Stone", "Cactus"}

Tallest == DefaultSettings.base_height + DefaultSettings.add_height

Column(o) ==
    {p \in Pos : p[1] = o[1] /\ p[3] = o[3]
                    /\ p[2] >= o[2] /\ p[2] <= o[2] + Tallest}

CactusReach(o) ==
    (Column(o) \cup {Offset(c, d) : c \in Column(o) \ {o}, d \in Horizontal})
        \ {NoPos}

PlantReach(o) == {o, Offset(o, Down), Offset(o, Up)} \ {NoPos}

RECURSIVE Patches(_, _)
Patches(cells, n) ==
    IF n = 0 THEN {{}}
    ELSE LET fewer == Patches(cells, n - 1)
         IN  fewer \cup
             {p \cup {<<c, b>>} :
                 p \in fewer,
                 c \in cells,
                 b \in PatchBlock}

WellFormed(patch) == \A e, f \in patch : e[1] = f[1] => e = f

Patched(patch) ==
    [p \in Pos |->
        IF \E e \in patch : e[1] = p
        THEN (CHOOSE e \in patch : e[1] = p)[2]
        ELSE "Air"]

QuadsAround(cells) ==
    {Patched(patch) : patch \in {pt \in Patches(cells, MaxPatch) : WellFormed(pt)}}

----------------------------------------------------------------------------
(* State left alone by a specification that does not use it *)

IdleDeco ==
    /\ quad = [p \in Pos |-> "Air"]
    /\ quad0 = quad
    /\ origin = <<0, 0, 0>>
    /\ blocks = [replace |-> None, base |-> None, solid |-> None, block |-> "Air"]
    /\ plant = [block |-> "Air", base |-> None, replace |-> None]
    /\ settings = DefaultSettings
    /\ pc = "idle"
    /\ position = origin
    /\ height = 0
    /\ left = 0
    /\ draws = <<>>
    /\ result = "none"
    /\ written = {}
    /\ checks = <<>>
    /\ oob = FALSE

IdleMatcher ==
    /\ matcher = None
    /\ ctor = <<"none">>
    /\ probe = "Air"
    /\ matched = FALSE

IdleSurface ==
    /\ stack = [depth |-> 0, beach |-> "Biome", biome |-> "Plains"]
    /\ sy = 0
    /\ last = [top |-> <<>>, fill |-> "Air"]
    /\ surface = [status |-> "none"]

----------------------------------------------------------------------------
(* CactusDecorator::generate, src/decorator/clump/cactus.rs:14-36 *)

InitCactus ==
    /\ origin \in Pos
    /\ quad \in QuadsAround(CactusReach(origin))
    /\ quad0 = quad
    /\ blocks \in CactusConfigs
    /\ plant = [block |-> "Air", base |-> None, replace |-> None]
    /\ settings = DefaultSettings
    /\ pc = "call"
    /\ position = origin
    /\ height = 0
    /\ left = 0
    /\ draws = <<>>
    /\ result = "none"
    /\ written = {}
    /\ checks = <<>>
    /\ oob = FALSE
    /\ IdleMatcher
    /\ IdleSurface

CactusEnter ==
    /\ pc = "call"
    /\ IF ~Matches(blocks.replace, Get(quad, origin))
       THEN /\ pc' = "done"
            /\ result' = "Ok"
            /\ UNCHANGED <<height, left, draws>>
       ELSE \E r1 \in 0..(FirstBound(settings) - 1) :
            \E r2 \in 0..(SecondBound(settings, r1) - 1) :
                /\ draws' = <<r1, r2>>
                /\ height' = SampleHeight(settings, r2)
                /\ left' = height'
                /\ pc' = IF height' = 0 THEN "done" ELSE "loop"
                /\ result' = IF height' = 0 THEN "Ok" ELSE result
    /\ position' = origin
    /\ UNCHANGED <<quad, quad0, origin, blocks, plant, settings, written,
                   checks, oob>>
    /\ UNCHANGED <<matcherVars, surfaceVars>>

CactusLevelBreak ==
    /\ pc = "loop"
    /\ LET up == Offset(position, Up)
       IN  IF up = NoPos
           THEN /\ pc' = "done"
                /\ result' = "Ok"
                /\ oob' = TRUE
                /\ UNCHANGED <<quad, position, left, written, checks>>
           ELSE LET ok == Check(blocks, quad, up)
                IN  /\ position' = up
                    /\ checks' = Append(checks, ok)
                    /\ quad' = IF ok THEN SetImmediate(quad, up, blocks.block)
                                     ELSE quad
                    /\ written' = IF ok THEN written \cup {up} ELSE written
                    /\ left' = left - 1
                    /\ pc' = IF left' = 0 \/ ~ok THEN "done" ELSE "loop"
                    /\ result' = IF left' = 0 \/ ~ok THEN "Ok" ELSE result
                    /\ oob' = oob
    /\ UNCHANGED <<quad0, origin, blocks, plant, settings, height, draws>>
    /\ UNCHANGED <<matcherVars, surfaceVars>>

CactusLevelOobErr ==
    /\ pc = "loop"
    /\ LET up == Offset(position, Up)
       IN  IF up = NoPos
           THEN /\ pc' = "done"
                /\ result' = "Err"
                /\ oob' = TRUE
                /\ UNCHANGED <<quad, position, left, written, checks>>
           ELSE LET ok == Check(blocks, quad, up)
                IN  /\ position' = up
                    /\ checks' = Append(checks, ok)
                    /\ quad' = IF ok THEN SetImmediate(quad, up, blocks.block)
                                     ELSE quad
                    /\ written' = IF ok THEN written \cup {up} ELSE written
                    /\ left' = left - 1
                    /\ pc' = IF left' = 0 THEN "done" ELSE "loop"
                    /\ result' = IF left' = 0 THEN "Ok" ELSE result
                    /\ oob' = oob
    /\ UNCHANGED <<quad0, origin, blocks, plant, settings, height, draws>>
    /\ UNCHANGED <<matcherVars, surfaceVars>>

CactusLevel ==
    /\ pc = "loop"
    /\ LET up == Offset(position, Up)
       IN  IF up = NoPos
           THEN /\ pc' = "done"
                /\ result' = "Ok"
                /\ oob' = TRUE
                /\ UNCHANGED <<quad, position, left, written, checks>>
           ELSE LET ok == Check(blocks, quad, up)
                IN  /\ position' = up
                    /\ checks' = Append(checks, ok)
                    /\ quad' = IF ok THEN SetImmediate(quad, up, blocks.block)
                                     ELSE quad
                    /\ written' = IF ok THEN written \cup {up} ELSE written
                    /\ left' = left - 1
                    /\ pc' = IF left' = 0 THEN "done" ELSE "loop"
                    /\ result' = IF left' = 0 THEN "Ok" ELSE result
                    /\ oob' = oob
    /\ UNCHANGED <<quad0, origin, blocks, plant, settings, height, draws>>
    /\ UNCHANGED <<matcherVars, surfaceVars>>

NextCactus == CactusEnter \/ CactusLevel

SpecCactus == InitCactus /\ [][NextCactus]_vars

----------------------------------------------------------------------------
(* PlantDecorator::generate, src/decorator/clump/plant.rs:17-34 *)

InitPlant ==
    /\ origin \in Pos
    /\ quad \in QuadsAround(PlantReach(origin))
    /\ quad0 = quad
    /\ blocks = [replace |-> None, base |-> None, solid |-> None, block |-> "Air"]
    /\ plant \in PlantConfigs
    /\ settings = DefaultSettings
    /\ pc = "call"
    /\ position = origin
    /\ height = 0
    /\ left = 0
    /\ draws = <<>>
    /\ result = "none"
    /\ written = {}
    /\ checks = <<>>
    /\ oob = FALSE
    /\ IdleMatcher
    /\ IdleSurface

PlantGenerateNoGround ==
    /\ pc = "call"
    /\ IF ~Matches(plant.replace, Get(quad, origin))
       THEN UNCHANGED <<quad, written>>
       ELSE LET below == Offset(origin, Down)
            IN  IF below # NoPos /\ ~Matches(plant.base, Get(quad, below))
                THEN UNCHANGED <<quad, written>>
                ELSE /\ quad' = SetImmediate(quad, origin, plant.block)
                     /\ written' = written \cup {origin}
    /\ pc' = "done"
    /\ result' = "Ok"
    /\ UNCHANGED <<quad0, origin, blocks, plant, settings, position, height,
                   left, draws, checks, oob>>
    /\ UNCHANGED <<matcherVars, surfaceVars>>

PlantGenerate ==
    /\ pc = "call"
    /\ IF ~Matches(plant.replace, Get(quad, origin))
       THEN UNCHANGED <<quad, written>>
       ELSE LET below == Offset(origin, Down)
            IN  IF below = NoPos
                THEN UNCHANGED <<quad, written>>
                ELSE IF ~Matches(plant.base, Get(quad, below))
                THEN UNCHANGED <<quad, written>>
                ELSE /\ quad' = SetImmediate(quad, origin, plant.block)
                     /\ written' = written \cup {origin}
    /\ pc' = "done"
    /\ result' = "Ok"
    /\ UNCHANGED <<quad0, origin, blocks, plant, settings, position, height,
                   left, draws, checks, oob>>
    /\ UNCHANGED <<matcherVars, surfaceVars>>

NextPlant == PlantGenerate

SpecPlant == InitPlant /\ [][NextPlant]_vars

----------------------------------------------------------------------------
(* BlockMatcher constructors and matches, src/matcher.rs:17-71 *)

RECURSIVE SeqsUpTo(_)
SeqsUpTo(n) ==
    IF n = 0 THEN {<<>>}
    ELSE LET shorter == SeqsUpTo(n - 1)
         IN  shorter \cup {Append(q, b) : q \in shorter, b \in Block}

InitMatcher ==
    /\ IdleDeco
    /\ IdleSurface
    /\ matcher = None
    /\ ctor = <<"unbuilt">>
    /\ probe = "Air"
    /\ matched = FALSE

BuildAll ==
    /\ ctor[1] = "unbuilt"
    /\ ctor' = <<"all", <<>>>>
    /\ matcher' = All
    /\ UNCHANGED <<probe, matched>>
    /\ UNCHANGED <<decoVars, surfaceVars>>

BuildNone ==
    /\ ctor[1] = "unbuilt"
    /\ ctor' = <<"none", <<>>>>
    /\ matcher' = None
    /\ UNCHANGED <<probe, matched>>
    /\ UNCHANGED <<decoVars, surfaceVars>>

BuildIs ==
    \E b \in Block :
        /\ ctor[1] = "unbuilt"
        /\ ctor' = <<"is", <<b>>>>
        /\ matcher' = Is(b)
        /\ UNCHANGED <<probe, matched>>
        /\ UNCHANGED <<decoVars, surfaceVars>>

BuildIsNot ==
    \E b \in Block :
        /\ ctor[1] = "unbuilt"
        /\ ctor' = <<"is_not", <<b>>>>
        /\ matcher' = IsNot(b)
        /\ UNCHANGED <<probe, matched>>
        /\ UNCHANGED <<decoVars, surfaceVars>>

BuildInclude ==
    \E bs \in SeqsUpTo(MaxLen) :
        /\ ctor[1] = "unbuilt"
        /\ ctor' = <<"include", bs>>
        /\ matcher' = Include(bs)
        /\ UNCHANGED <<probe, matched>>
        /\ UNCHANGED <<decoVars, surfaceVars>>

BuildExclude ==
    \E bs \in SeqsUpTo(MaxLen) :
        /\ ctor[1] = "unbuilt"
        /\ ctor' = <<"exclude", bs>>
        /\ matcher' = Exclude(bs)
        /\ UNCHANGED <<probe, matched>>
        /\ UNCHANGED <<decoVars, surfaceVars>>

MatchesCall ==
    /\ ctor[1] # "unbuilt"
    /\ \E b \in Block :
        /\ probe' = b
        /\ matched' = Matches(matcher, b)
    /\ ctor' = <<ctor[1], ctor[2], "probed">>
    /\ UNCHANGED matcher
    /\ UNCHANGED <<decoVars, surfaceVars>>

NextMatcher ==
    \/ BuildAll
    \/ BuildNone
    \/ BuildIs
    \/ BuildIsNot
    \/ BuildInclude
    \/ BuildExclude
    \/ MatchesCall

SpecMatcher == InitMatcher /\ [][NextMatcher]_vars

----------------------------------------------------------------------------
(* Surface / Stack, src/surface.rs *)

SEA_COORD == 63
BEACH_LOW == SEA_COORD - 3
BEACH_HIGH == SEA_COORD + 2

Beach == {"Sand", "Gravel", "Biome"}

Biome == {"Desert", "Plains"}

Unimplemented(line) == [status |-> "panicked", line |-> line]

BeachSurface(beach, biome) == Unimplemented(26)

StackSurface(st, y, lst) ==
    LET first ==
            IF st.depth <= 0 THEN Unimplemented(40)
            ELSE IF y >= BEACH_LOW /\ y <= BEACH_HIGH
            THEN BeachSurface(st.beach, st.biome)
            ELSE Unimplemented(45)
    IN  IF first.status = "panicked" THEN first
        ELSE IF y < SEA_COORD THEN Unimplemented(49)
        ELSE first

InitSurface ==
    /\ IdleDeco
    /\ IdleMatcher
    /\ stack = [depth |-> 0, beach |-> "Biome", biome |-> "Plains"]
    /\ sy = 0
    /\ last = [top |-> <<>>, fill |-> "Air"]
    /\ surface = [status |-> "none"]

SurfaceCall ==
    \E d \in (-DepthSpan)..DepthSpan, b \in Beach, bi \in Biome,
       y \in (SEA_COORD - YSpan)..(SEA_COORD + YSpan),
       f \in {"Sand", "Stone"} :
        /\ stack' = [depth |-> d, beach |-> b, biome |-> bi]
        /\ sy' = y
        /\ last' = [top |-> <<>>, fill |-> f]
        /\ surface' = StackSurface(stack', y, last')
        /\ UNCHANGED <<decoVars, matcherVars>>

NextSurface == SurfaceCall

SpecSurface == InitSurface /\ [][NextSurface]_vars

----------------------------------------------------------------------------
(* The height sampling alone, src/decorator/clump/cactus.rs:19-20 *)

InitHeight ==
    /\ quad = [p \in Pos |-> "Air"]
    /\ quad0 = quad
    /\ origin = <<0, 0, 0>>
    /\ blocks = [replace |-> None, base |-> None, solid |-> None, block |-> "Air"]
    /\ plant = [block |-> "Air", base |-> None, replace |-> None]
    /\ settings \in [base_height : 0..MaxBase, add_height : 0..MaxAdd]
    /\ pc = "draw1"
    /\ position = origin
    /\ height = 0
    /\ left = 0
    /\ draws = <<>>
    /\ result = "none"
    /\ written = {}
    /\ checks = <<>>
    /\ oob = FALSE
    /\ IdleMatcher
    /\ IdleSurface

DrawFirst ==
    /\ pc = "draw1"
    /\ \E r1 \in 0..(FirstBound(settings) - 1) :
        /\ draws' = <<r1>>
        /\ height' = r1
    /\ pc' = "draw2"
    /\ UNCHANGED <<quad, quad0, origin, blocks, plant, settings, position,
                   left, result, written, checks, oob>>
    /\ UNCHANGED <<matcherVars, surfaceVars>>

DrawSecond ==
    /\ pc = "draw2"
    /\ \E r2 \in 0..(SecondBound(settings, height) - 1) :
        /\ draws' = Append(draws, r2)
        /\ height' = SampleHeight(settings, r2)
    /\ pc' = "sampled"
    /\ UNCHANGED <<quad, quad0, origin, blocks, plant, settings, position,
                   left, result, written, checks, oob>>
    /\ UNCHANGED <<matcherVars, surfaceVars>>

NextHeight == DrawFirst \/ DrawSecond

SpecHeight == InitHeight /\ [][NextHeight]_vars

(* Exact distribution of the sampled height when each draw is uniform over  *)
(* its range: HeightNum(st, h) / (FirstBound(st) * Scale(st)) is            *)
(* P(height = h).                                                           *)

RECURSIVE ScaleTo(_, _)
ScaleTo(st, n) == IF n < 0 THEN 1 ELSE ScaleTo(st, n - 1) * SecondBound(st, n)

Scale(st) == ScaleTo(st, FirstBound(st) - 1)

Ways(st, h, r1) ==
    Cardinality({r2 \in 0..(SecondBound(st, r1) - 1) : SampleHeight(st, r2) = h})

RECURSIVE HeightNumTo(_, _, _)
HeightNumTo(st, h, n) ==
    IF n < 0 THEN 0
    ELSE HeightNumTo(st, h, n - 1)
         + Ways(st, h, n) * (Scale(st) \div SecondBound(st, n))

HeightNum(st, h) == HeightNumTo(st, h, FirstBound(st) - 1)

----------------------------------------------------------------------------
(* Properties of CactusDecorator::generate *)

\* The cell k levels above the origin.
Level(k) == <<origin[1], origin[2] + k, origin[3]>>

\* Levels of the quad above the origin.
LevelsAbove == SizeY - 1 - origin[2]

\* The quad as it stood when level k was checked: the original quad with the
\* blocks this call wrote at lower levels.
QuadAt(k) ==
    [p \in Pos |->
        IF p \in written /\ p[2] < origin[2] + k THEN blocks.block
        ELSE quad0[p]]

\* No block matches both `replace` and `base`.
Disjoint(bl) == \A b \in Block : ~(Matches(bl.replace, b) /\ Matches(bl.base, b))

\* C1: a level whose check fails receives no block and does not end the
\* growth: the levels 1 .. min(height, levels above the origin) are all
\* checked, each against the quad as it stands at that moment, a level holds
\* the block exactly when its own check passed, and a growth whose checks
\* went pass, fail, pass wrote levels 1 and 3 and not level 2.
C1_SkipAndContinue ==
    /\ \A k \in 1..Len(checks) :
        /\ checks[k] = Check(blocks, QuadAt(k), Level(k))
        /\ (Level(k) \in written) = checks[k]
        /\ quad[Level(k)] = IF checks[k] THEN blocks.block ELSE quad0[Level(k)]
    /\ (pc = "done" /\ Len(draws) = 2) =>
        Len(checks) = IF height <= LevelsAbove THEN height ELSE LevelsAbove
    /\ (pc = "done" /\ checks = <<TRUE, FALSE, TRUE>>) =>
        /\ written = {Level(1), Level(3)}
        /\ quad[Level(2)] = quad0[Level(2)]

C1_Witness ==
    /\ pc = "done"
    /\ height = 3
    /\ checks = <<TRUE, FALSE, TRUE>>
    /\ quad[Level(1)] = blocks.block
    /\ quad[Level(2)] # blocks.block
    /\ quad[Level(3)] = blocks.block

\* C2: a cell the call wrote has no in-bounds horizontal neighbour matching
\* `solid`, whatever lies below it; and a candidate that matches `replace`,
\* stands on a `base` block and has no in-bounds solid neighbour passes its
\* check, so a neighbour that is out of bounds never blocks.
C2_NeighbourRule ==
    /\ \A p \in written : \A d \in Horizontal :
        LET n == <<p[1] + d[1], p[2], p[3] + d[3]>>
        IN  n \in Pos => ~Matches(blocks.solid, quad[n])
    /\ \A k \in 1..Len(checks) :
        LET q == QuadAt(k)
            p == Level(k)
        IN  /\ (\E d \in Horizontal :
                    LET n == <<p[1] + d[1], p[2], p[3] + d[3]>>
                    IN  n \in Pos /\ Matches(blocks.solid, q[n]))
                => ~checks[k] /\ quad[p] = quad0[p]
            /\ ( /\ Matches(blocks.replace, q[p])
                 /\ Matches(blocks.base, q[Level(k - 1)])
                 /\ \A d \in Horizontal :
                        LET n == <<p[1] + d[1], p[2], p[3] + d[3]>>
                        IN  n \in Pos => ~Matches(blocks.solid, q[n]) )
                => checks[k]

C2_Witness ==
    \E k \in 1..Len(checks) :
        /\ ~checks[k]
        /\ Matches(blocks.replace, quad[Level(k)])
        /\ Matches(blocks.base, quad[Level(k - 1)])
        /\ Level(k) \notin written
        /\ \E d \in Horizontal :
            LET n == <<Level(k)[1] + d[1], Level(k)[2], Level(k)[3] + d[3]>>
            IN  n \in Pos /\ Matches(blocks.solid, quad[n])
        /\ \E j \in 1..Len(checks) : checks[j]

\* C9: generate returns Ok and nothing else; when the upward offset leaves the
\* quad the call is over at once (every level below the top was checked, no
\* more than those), with fewer levels than the sampled height, and each
\* block written below the boundary is still in the quad.
C9_BoundaryStop ==
    /\ result \in {"none", "Ok"}
    /\ pc = "done" => result = "Ok"
    /\ oob =>
        /\ pc = "done"
        /\ position = Level(LevelsAbove)
        /\ Len(checks) = LevelsAbove
        /\ LevelsAbove < height
        /\ \A p \in written : quad[p] = blocks.block

C9_Witness ==
    /\ oob
    /\ pc = "done"
    /\ result = "Ok"
    /\ written # {}
    /\ \A p \in written : quad[p] = blocks.block /\ quad0[p] # blocks.block

\* C10: the origin cell is never written; only cells of the origin's column
\* at levels 1 .. height change; level k is written only if the cell at level
\* k - 1 matched `base` when level k was checked, so level 1 is written only
\* if the origin block matches both `replace` and `base`; and when no block
\* matches both, level 1 is never written and a level that fails while
\* matching `replace` makes the next level fail too.
C10_StandsOnBase ==
    /\ origin \notin written
    /\ quad[origin] = quad0[origin]
    /\ \A p \in Pos :
        (p \in written \/ quad[p] # quad0[p]) =>
            \E k \in 1..height : p = Level(k)
    /\ \A k \in 1..Len(checks) :
        Level(k) \in written => Matches(blocks.base, QuadAt(k)[Level(k - 1)])
    /\ Level(1) \in written =>
        /\ Matches(blocks.replace, quad0[origin])
        /\ Matches(blocks.base, quad0[origin])
    /\ Disjoint(blocks) =>
        /\ Level(1) \notin written
        /\ \A k \in 1..(Len(checks) - 1) :
            (~checks[k] /\ Matches(blocks.replace, QuadAt(k)[Level(k)]))
                => ~checks[k + 1]

C10_Witness ==
    /\ pc = "done"
    /\ Disjoint(blocks)
    /\ checks = <<FALSE, FALSE, TRUE>>
    /\ Matches(blocks.replace, quad0[Level(1)])
    /\ written = {Level(3)}
    /\ Matches(blocks.base, quad[Level(2)])

----------------------------------------------------------------------------
(* Properties of PlantDecorator::generate *)

\* C7: the call returns Ok and draws nothing; it writes the configured block
\* at the target and nowhere else when the target matches `replace` and the
\* cell below is in bounds and matches `base`, and otherwise leaves the whole
\* quad as it was.
C7_PlantFrame ==
    /\ draws = <<>>
    /\ pc = "done" =>
        /\ result = "Ok"
        /\ LET below == <<origin[1], origin[2] - 1, origin[3]>>
               place == /\ Matches(plant.replace, quad0[origin])
                        /\ below \in Pos
                        /\ Matches(plant.base, quad0[below])
           IN  /\ place =>
                    /\ quad[origin] = plant.block
                    /\ \A p \in Pos \ {origin} : quad[p] = quad0[p]
               /\ ~place => quad = quad0

C7_Witness ==
    /\ pc = "done"
    /\ result = "Ok"
    /\ quad[origin] = plant.block
    /\ quad0[origin] # plant.block
    /\ origin[2] > 0
    /\ Matches(plant.base, quad0[<<origin[1], origin[2] - 1, origin[3]>>])

----------------------------------------------------------------------------
(* Properties of BlockMatcher *)

\* C6: matches(b) is (b in the block set) XOR blacklist for every
\* construction: all() matches every block, none() none, is(x) exactly x,
\* is_not(x) every block but x, include(S) exactly the blocks of S and
\* exclude(S) exactly the others.
C6_MatcherXor ==
    Len(ctor) = 3 =>
        /\ matched = ((probe \in matcher.blocks) # matcher.blacklist)
        /\ ctor[1] = "all" => matched
        /\ ctor[1] = "none" => ~matched
        /\ ctor[1] = "is" => (matched <=> probe = ctor[2][1])
        /\ ctor[1] = "is_not" => (matched <=> probe # ctor[2][1])
        /\ ctor[1] = "include" =>
            (matched <=> \E i \in 1..Len(ctor[2]) : ctor[2][i] = probe)
        /\ ctor[1] = "exclude" =>
            (matched <=> \A i \in 1..Len(ctor[2]) : ctor[2][i] # probe)

C6_Witness ==
    /\ Len(ctor) = 3
    /\ ctor[1] = "exclude"
    /\ Len(ctor[2]) = 2
    /\ ctor[2][1] # ctor[2][2]
    /\ probe = ctor[2][2]
    /\ ~matched

----------------------------------------------------------------------------
(* Properties of the height sampling *)

\* C8: the second draw is bounded by the first, the height is base_height
\* plus the second draw, and with base_height = 1, add_height = 2 and uniform
\* draws the height lies in {1, 2, 3} with P(1) > P(2) > P(3) > 0, the three
\* probabilities adding up to 1.
C8_HeightDistribution ==
    /\ pc = "sampled" =>
        /\ draws[1] \in 0..settings.add_height
        /\ draws[2] \in 0..draws[1]
        /\ height = settings.base_height + draws[2]
    /\ settings = DefaultSettings =>
        /\ pc = "sampled" => height \in {1, 2, 3}
        /\ HeightNum(settings, 1) > HeightNum(settings, 2)
        /\ HeightNum(settings, 2) > HeightNum(settings, 3)
        /\ HeightNum(settings, 3) > 0
        /\ HeightNum(settings, 1) + HeightNum(settings, 2)
             + HeightNum(settings, 3) = FirstBound(settings) * Scale(settings)
        /\ 3 * HeightNum(settings, 1) # FirstBound(settings) * Scale(settings)

C8_Witness ==
    /\ pc = "sampled"
    /\ settings = DefaultSettings
    /\ draws = <<2, 2>>
    /\ height = 3

----------------------------------------------------------------------------
(* Properties claimed of Stack::surface *)

\* C3: a query with y below SEA_COORD returns a Surface whose top is
\* Some(fill).
C3_SubmergedTop ==
    (surface.status # "none" /\ sy < SEA_COORD) =>
        /\ surface.status = "returned"
        /\ surface.top = <<surface.fill>>

\* C4: a query with depth <= 0 returns the deep-fill surface, no top and the
\* generic solid fill block, at every elevation.
C4_DeepFill ==
    (surface.status # "none" /\ stack.depth <= 0) =>
        /\ surface.status = "returned"
        /\ surface.top = <<>>
        /\ surface.fill = "Stone"

\* C5: a query with depth > 0 and y in [BEACH_LOW, BEACH_HIGH] returns the
\* beach variant's surface: Sand gives top = Some(sand) and fill = sand,
\* Gravel gives top = None and fill = gravel.
C5_BeachBand ==
    (surface.status # "none" /\ stack.depth > 0
        /\ sy >= BEACH_LOW /\ sy <= BEACH_HIGH) =>
        /\ stack.beach = "Sand" =>
            /\ surface.status = "returned"
            /\ surface.top = <<"Sand">>
            /\ surface.fill = "Sand"
        /\ stack.beach = "Gravel" =>
            /\ surface.status = "returned"
            /\ surface.top = <<>>
            /\ surface.fill = "Gravel"

====
